---- MODULE Spec2Model ----
(***************************************************************************)
(* A model of mlpack's linear_svm command-line program                     *)
(* (src/mlpack/methods/linear_svm/linear_svm_main.cpp): mlpackMain() and   *)
(* NumberOfClasses().                                                      *)
(*                                                                         *)
(* One run of mlpackMain is a straight line of steps; pc names the step    *)
(* the run is at.  The command-line parameters are the record cli, fixed   *)
(* for the whole run.  Log::Fatal ends the run: pc = "fatal".              *)
(*                                                                         *)
(* Doubles are fixed-point integers in units of 1e-4 (10000 is 1.0, 15000  *)
(* is 1.5, 1 is the default lambda 0.0001).  A matrix is a record          *)
(* [n_rows, n_cols, rows], rows a sequence of n_rows sequences of n_cols   *)
(* doubles.  arma::Row<size_t> is a sequence of naturals; a C++ vector     *)
(* indexed from 0 is a function on 0 .. size-1.                            *)
(***************************************************************************)
EXTENDS Integers, Sequences, FiniteSets

\* Bounds of the model.
MaxRows == 3
MaxCols == 2
MaxLabel == 2
MaxLen == 4
\* size_t is modelled SizeBits wide (64 in the build): wide enough that no
\* matrix of the model has 2^SizeBits - 1 rows, as no matrix in memory has
\* 2^64 - 1 rows.
SizeBits == 6

VARIABLES
  cli,          \* the command-line parameters (CLI singleton), fixed
  hasOpenMP,    \* whether the build defines HAS_OPENMP
  pc,           \* the step mlpackMain is at
  trainingSet,  \* arma::mat trainingSet
  labels,       \* arma::Row<size_t> labels
  model,        \* *model, the LinearSVM<> object model points to
  numClasses,   \* const size_t numClasses
  testSet,      \* arma::mat testSet (only its shape is read)
  predictions,  \* arma::Row<size_t> predictions (the inner one, line 314)
  testLabels,   \* arma::Row<size_t> testLabels
  bingoLabels,  \* vector<size_t> bingoLabels
  labelSize,    \* vector<size_t> labelSize
  totalBingo,   \* size_t totalBingo
  report,       \* the accuracies written to Log::Info
  out,          \* the output parameters set so far
  trainCalls,   \* the calls of model->Train made so far, with their arguments
  classifyCalls \* the number of calls of model->Classify made so far

vars == <<cli, hasOpenMP, pc, trainingSet, labels, model, numClasses, testSet,
          predictions, testLabels, bingoLabels, labelSize, totalBingo, report,
          out, trainCalls, classifyCalls>>

----------------------------------------------------------------------------
\* Values

SizeMod == 2 ^ SizeBits

\* a - b on size_t
SizeSub(a, b) == ((a - b) + SizeMod) % SizeMod

\* double(n) for an integer n
ToDouble(n) == n * 10000

\* (size_t) x for a double x >= 0: the fractional part is dropped
ConvToSizeT(x) == x \div 10000

\* a / static_cast<double>(b) for size_t a, b: IEEE division
Divide(a, b) ==
  IF b = 0
    THEN [kind |-> IF a = 0 THEN "nan" ELSE "inf", num |-> a, den |-> b]
    ELSE [kind |-> "number", num |-> a, den |-> b]

EmptyMat == [n_rows |-> 0, n_cols |-> 0, rows |-> <<>>]

\* arma's trainingSet.row(r), r counted from 0
MatRow(m, r) == m.rows[r + 1]

\* Mutant of ShedRow: the first row is removed, not row r.
ShedRowFirst(m, r) ==
  [n_rows |-> m.n_rows - 1,
   n_cols |-> m.n_cols,
   rows   |-> [i \in 1 .. (m.n_rows - 1) |-> m.rows[i + 1]]]

\* arma's shed_row(r), r counted from 0
ShedRow(m, r) ==
  [n_rows |-> m.n_rows - 1,
   n_cols |-> m.n_cols,
   rows   |-> [i \in 1 .. (m.n_rows - 1) |->
                 IF i <= r THEN m.rows[i] ELSE m.rows[i + 1]]]

\* arma::conv_to<arma::Row<size_t>>::from(row)
ConvRow(row) == [j \in 1 .. Len(row) |-> ConvToSizeT(row[j])]

\* the values of a sequence: std::set<size_t>(begin(labels), end(labels))
Range(s) == {s[i] : i \in 1 .. Len(s)}

NullModel == [id |-> "null", lambda |-> 0, delta |-> 0, fitIntercept |-> FALSE,
              numClasses |-> 0, paramRows |-> 0, paramCols |-> 0,
              params |-> "none"]

\* new LinearSVM<>: the default-constructed model, with an empty parameter
\* matrix
NewModel == [id |-> "new", lambda |-> 1, delta |-> ToDouble(1),
             fitIntercept |-> FALSE, numClasses |-> 0, paramRows |-> 0,
             paramCols |-> 0, params |-> "empty"]

NoOutput == [predictions |-> <<"unset">>, score |-> <<"unset">>,
             output_model |-> NullModel]

HasParam(p) == p \in cli.passed

----------------------------------------------------------------------------
\* The inputs of a run

ElemVals == {0, 15000}
LabelVals == 0 .. MaxLabel

Rows(c) == [1 .. c -> ElemVals]

Mats(r, c) == {[n_rows |-> r, n_cols |-> c, rows |-> d] : d \in [1 .. r -> Rows(c)]}

Matrices == UNION {Mats(r, c) : r \in 0 .. MaxRows, c \in 0 .. MaxCols}

\* a test matrix: only its shape is read by mlpackMain
Shape(r, c) == [n_rows |-> r, n_cols |-> c]

SeqsUpTo(n, S) == UNION {[1 .. k -> S] : k \in 0 .. n}

\* a matrix of r rows and c columns, all entries 0.0 but the last row, which
\* holds 0.0, 1.0, 0.0, 1.0, ...
FixedMat(r, c) ==
  [n_rows |-> r, n_cols |-> c,
   rows |-> [i \in 1 .. r |-> [j \in 1 .. c |->
              IF i = r THEN ToDouble((j + 1) % 2) ELSE 0]]]

\* a model loaded with input_model: its parameter matrix has pr rows
LoadedModel(pr, fi) ==
  [id |-> "input", lambda |-> 7, delta |-> ToDouble(3), fitIntercept |-> fi,
   numClasses |-> 2, paramRows |-> pr, paramCols |-> 2, params |-> "loaded"]

Base ==
  [passed |-> {"training"},
   lambda |-> 1, delta |-> ToDouble(1), tolerance |-> 0, step_size |-> 100,
   max_iterations |-> 10000, number_of_classes |-> 0, optimizer |-> "lbfgs",
   training |-> FixedMat(3, 2), labels |-> <<0, 1>>,
   input_model |-> LoadedModel(3, TRUE),
   test |-> Shape(2, 2), test_labels |-> <<0, 1>>]

\* Parameter values, valid and invalid, with the fixed data.
InputsValues ==
  {[Base EXCEPT !.passed = p, !.lambda = l, !.delta = d, !.tolerance = t,
                !.step_size = s, !.max_iterations = n,
                !.number_of_classes = c, !.optimizer = o] :
     p \in SUBSET {"training", "input_model"},
     l \in {-1, 0, 1}, d \in {-10000, 10000}, t \in {-1, 0}, s \in {-100, 100},
     n \in {-1, 0}, c \in {-1, 0, 2}, o \in {"lbfgs", "psgd", "sgd"}}

\* Every combination of the parameters passed, with the fixed data.
InputsFlags ==
  {[Base EXCEPT !.passed = p, !.optimizer = o, !.number_of_classes = c] :
     p \in SUBSET {"training", "labels", "input_model", "no_intercept", "test",
                   "test_labels", "score", "predictions"},
     o \in {"lbfgs", "psgd"}, c \in {0, 1, 2}}

\* Every training matrix: without labels, with as many labels as columns, and
\* with a different number of labels.
InputsTraining ==
  {[Base EXCEPT !.passed = {"training"}, !.training = m] : m \in Matrices}
  \cup
  {[Base EXCEPT !.passed = {"training", "labels"}, !.training = m,
                !.labels = [j \in 1 .. ((m.n_cols + d) % (MaxCols + 1)) |-> 0]] :
     m \in Matrices, d \in {0, 1}}

\* Every label vector, with a training matrix of as many columns.
InputsLabels ==
  {[Base EXCEPT !.passed = {"training", "labels"}, !.labels = l,
                !.training = FixedMat(1, Len(l)), !.number_of_classes = c] :
     l \in SeqsUpTo(MaxLen, LabelVals), c \in 0 .. (MaxLabel + 1)}

\* Every shape of the test matrix against every height of the parameter matrix.
InputsTest ==
  {[Base EXCEPT !.passed = p \cup {"test", "score", "predictions"},
                !.test = Shape(r, 1),
                !.input_model = LoadedModel(pr, fi)] :
     p \in {{"training"}, {"training", "no_intercept"}, {"input_model"},
            {"training", "input_model"}},
     r \in 0 .. MaxRows, pr \in 0 .. (MaxRows + 1), fi \in BOOLEAN}

\* Every vector of test labels, with a model trained or loaded.
InputsAccuracy ==
  {[Base EXCEPT !.passed = p \cup {"test", "test_labels", "predictions"},
                !.test = Shape(2, n), !.test_labels = l,
                !.number_of_classes = c] :
     p \in {{"training"}, {"input_model"}},
     n \in 0 .. MaxCols, l \in SeqsUpTo(MaxCols, LabelVals),
     c \in 0 .. (MaxLabel + 1)}

\* The runs checked: the inputs, and whether the build has OpenMP, which only
\* the choice of the optimizer reads.
Runs ==
  ((InputsValues \cup InputsFlags) \X BOOLEAN)
  \cup
  ((InputsTraining \cup InputsLabels \cup InputsTest \cup InputsAccuracy)
     \X {TRUE})

Init ==
  /\ \E r \in Runs : cli = r[1] /\ hasOpenMP = r[2]
  /\ pc = "start"
  /\ trainingSet = EmptyMat
  /\ labels = <<>>
  /\ model = NullModel
  /\ numClasses = 0
  /\ testSet = Shape(0, 0)
  /\ predictions = <<>>
  /\ testLabels = <<>>
  /\ bingoLabels = <<>>
  /\ labelSize = <<>>
  /\ totalBingo = 0
  /\ report = [perClass |-> <<>>, total |-> <<>>]
  /\ out = NoOutput
  /\ trainCalls = <<>>
  /\ classifyCalls = 0

----------------------------------------------------------------------------
\* mlpackMain, step by step

Fatal == pc' = "fatal"

\* RequireAtLeastOnePassed({ "training", "input_model" }, true)
RequireTrainingOrModel == HasParam("training") \/ HasParam("input_model")

\* Mutant of RequireValues: delta is not checked.
RequireValuesNoDelta ==
  /\ cli.max_iterations >= 0
  /\ cli.tolerance >= 0
  /\ cli.optimizer \in {"lbfgs", "psgd"}
  /\ cli.lambda >= 0
  /\ cli.number_of_classes >= 0
  /\ cli.step_size >= 0

\* The RequireParamValue and RequireParamInSet checks, all fatal.  A parameter
\* that was not passed has its default, which passes its check.
RequireValues ==
  /\ cli.max_iterations >= 0
  /\ cli.tolerance >= 0
  /\ cli.optimizer \in {"lbfgs", "psgd"}
  /\ cli.lambda >= 0
  /\ cli.number_of_classes >= 0
  /\ cli.delta >= 0
  /\ cli.step_size >= 0

\* Lines 156-217: the options are collected and checked.  The checks that only
\* warn (lines 169-174, 205-217) change no state.
Validate ==
  /\ pc = "start"
  /\ IF RequireTrainingOrModel /\ RequireValues
       THEN pc' = "loadTraining"
       ELSE Fatal
  /\ UNCHANGED <<cli, hasOpenMP, trainingSet, labels, model, numClasses,
                 testSet, predictions, testLabels, bingoLabels, labelSize,
                 totalBingo, report, out, trainCalls, classifyCalls>>

\* Lines 225-227: the training matrix is loaded.
LoadTraining ==
  /\ pc = "loadTraining"
  /\ trainingSet' = IF HasParam("training") THEN cli.training ELSE trainingSet
  /\ pc' = "loadModel"
  /\ UNCHANGED <<cli, hasOpenMP, labels, model, numClasses, testSet,
                 predictions, testLabels, bingoLabels, labelSize, totalBingo,
                 report, out, trainCalls, classifyCalls>>

\* Lines 229-236: the model is loaded or created.
LoadModel ==
  /\ pc = "loadModel"
  /\ model' = IF HasParam("input_model") THEN cli.input_model ELSE NewModel
  /\ pc' = "getLabels"
  /\ UNCHANGED <<cli, hasOpenMP, trainingSet, labels, numClasses, testSet,
                 predictions, testLabels, bingoLabels, labelSize, totalBingo,
                 report, out, trainCalls, classifyCalls>>

\* Mutant of LabelCountOk: the rows are counted, not the columns.
LabelCountOkRows(m, l) == m.n_rows = Len(l)

\* Line 242: the labels parameter has one label per training point.
LabelCountOk(m, l) == m.n_cols = Len(l)

\* Lines 238-261: the labels come from the labels parameter, or from the last
\* row of the training matrix, which is then removed.
GetLabels ==
  /\ pc = "getLabels"
  /\ IF HasParam("training") /\ HasParam("labels")
       THEN /\ labels' = cli.labels
            /\ trainingSet' = trainingSet
            /\ IF LabelCountOk(trainingSet, cli.labels)
                 THEN pc' = "numClasses"
                 ELSE Fatal
       ELSE IF HasParam("training")
         THEN IF trainingSet.n_rows < 2
                THEN /\ Fatal
                     /\ UNCHANGED <<labels, trainingSet>>
                ELSE /\ labels' = ConvRow(MatRow(trainingSet,
                                                 trainingSet.n_rows - 1))
                     /\ trainingSet' = ShedRow(trainingSet,
                                               trainingSet.n_rows - 1)
                     /\ pc' = "numClasses"
         ELSE /\ pc' = "numClasses"
              /\ UNCHANGED <<labels, trainingSet>>
  /\ UNCHANGED <<cli, hasOpenMP, model, numClasses, testSet, predictions,
                 testLabels, bingoLabels, labelSize, totalBingo, report, out,
                 trainCalls, classifyCalls>>

\* Mutant of NumberOfClasses: the labels are counted, not the distinct ones.
NumberOfClassesLen(nc, lbls) ==
  IF nc = 0 THEN Len(lbls) ELSE nc

\* Lines 390-403.
NumberOfClasses(nc, lbls) ==
  IF nc = 0 THEN Cardinality(Range(lbls)) ELSE nc

\* Lines 263-264.
CountClasses ==
  /\ pc = "numClasses"
  /\ numClasses' = NumberOfClasses(cli.number_of_classes, labels)
  /\ pc' = "train"
  /\ UNCHANGED <<cli, hasOpenMP, trainingSet, labels, model, testSet,
                 predictions, testLabels, bingoLabels, labelSize, totalBingo,
                 report, out, trainCalls, classifyCalls>>

\* The model after model->Train(data, labels, nc, optimizer): the parameter
\* matrix is learned anew, one column per class and one row per feature, plus
\* one for the intercept if the model fits one.
TrainedModel(m, data, nc) ==
  [m EXCEPT !.numClasses = nc,
            !.paramRows = data.n_rows + (IF m.fitIntercept THEN 1 ELSE 0),
            !.paramCols = nc,
            !.params = "trained"]

\* Mutant of ConfiguredModel: the intercept flag is inverted.
ConfiguredModelInverted(m) ==
  [m EXCEPT !.lambda = cli.lambda,
            !.delta = cli.delta,
            !.fitIntercept = HasParam("no_intercept"),
            !.numClasses = numClasses]

\* Lines 270-273: the model takes the command-line values.
ConfiguredModel(m) ==
  [m EXCEPT !.lambda = cli.lambda,
            !.delta = cli.delta,
            !.fitIntercept = ~HasParam("no_intercept"),
            !.numClasses = numClasses]

\* The optimizer lines 275-308 train with: "none" is the Log::Fatal of a build
\* without OpenMP.
Optimizer ==
  IF cli.optimizer = "lbfgs" THEN "L_BFGS"
  ELSE IF hasOpenMP /\ cli.optimizer = "psgd" THEN "ParallelSGD"
  ELSE IF ~hasOpenMP THEN "fatal"
  ELSE "none"

\* Lines 267-309.
Train ==
  /\ pc = "train"
  /\ IF HasParam("training")
       THEN LET m == ConfiguredModel(model) IN
            IF Optimizer \in {"L_BFGS", "ParallelSGD"}
              THEN /\ model' = TrainedModel(m, trainingSet, numClasses)
                   /\ trainCalls' = Append(trainCalls,
                        [data |-> trainingSet, labels |-> labels,
                         numClasses |-> numClasses, optimizer |-> Optimizer,
                         model |-> m])
                   /\ pc' = "test"
              ELSE /\ model' = m
                   /\ trainCalls' = trainCalls
                   /\ IF Optimizer = "fatal" THEN Fatal ELSE pc' = "test"
       ELSE /\ pc' = "test"
            /\ UNCHANGED <<model, trainCalls>>
  /\ UNCHANGED <<cli, hasOpenMP, trainingSet, labels, numClasses, testSet,
                 predictions, testLabels, bingoLabels, labelSize, totalBingo,
                 report, out, classifyCalls>>

\* Mutant of TestDimensionOk: no row is subtracted.
TestDimensionOkNoOffset(t, m) == t.n_rows = m.paramRows

\* Line 317: the test matrix has as many rows as the parameter matrix but one.
TestDimensionOk(t, m) == t.n_rows = SizeSub(m.paramRows, 1)

\* Lines 310-325: the test matrix is loaded and its dimensionality checked.
CheckTest ==
  /\ pc = "test"
  /\ IF HasParam("test")
       THEN /\ testSet' = cli.test
            /\ IF TestDimensionOk(cli.test, model)
                 THEN pc' = "classify"
                 ELSE Fatal
       ELSE /\ testSet' = testSet
            /\ pc' = "saveModel"
  /\ UNCHANGED <<cli, hasOpenMP, trainingSet, labels, model, numClasses,
                 predictions, testLabels, bingoLabels, labelSize, totalBingo,
                 report, out, trainCalls, classifyCalls>>

\* Lines 327-337: the scores, if asked for, and the predictions: what
\* model->Classify returns is any class label for each test point.
Classify ==
  /\ pc = "classify"
  /\ \E p \in [1 .. testSet.n_cols -> LabelVals] : predictions' = p
  /\ IF HasParam("score")
       THEN /\ out' = [out EXCEPT !.score = <<"set", testSet.n_cols>>]
            /\ classifyCalls' = classifyCalls + 2
       ELSE /\ out' = out
            /\ classifyCalls' = classifyCalls + 1
  /\ pc' = "accuracy"
  /\ UNCHANGED <<cli, hasOpenMP, trainingSet, labels, model, numClasses,
                 testSet, testLabels, bingoLabels, labelSize, totalBingo,
                 report, trainCalls>>

\* vector<size_t>(n, 0)
ZeroVector(n) == [i \in 0 .. (n - 1) |-> 0]

\* v[k] is inside the vector
InVector(v, k) == k \in DOMAIN v

\* ++v[k]; a write outside the vector leaves the vector as it is
Increment(v, k) == IF InVector(v, k) THEN [v EXCEPT ![k] = @ + 1] ELSE v

\* Lines 355-362: the counting loop from position i (counted from 1) on, over
\* the counters c = [bingo, size].
RECURSIVE CountLoop(_, _, _, _)
CountLoop(i, preds, tl, c) ==
  IF i > Len(preds)
    THEN c
    ELSE CountLoop(i + 1, preds, tl,
           [bingo |-> IF preds[i] = tl[i]
                        THEN Increment(c.bingo, tl[i])
                        ELSE c.bingo,
            size  |-> Increment(c.size, tl[i])])

\* Lines 364-371: totalBingo, summed over the classes from class i on.
RECURSIVE SumFrom(_, _)
SumFrom(v, i) == IF ~InVector(v, i) THEN 0 ELSE v[i] + SumFrom(v, i + 1)

\* Some step of the counting loop indexes the counters outside their size.
IndexOutOfRange(preds, tl, n) == \E i \in 1 .. Len(preds) : tl[i] >= n

\* Lines 339-376: the accuracy report.  Indexing a counter vector outside its
\* size is undefined: the run may crash, or go on with the vector untouched.
Accuracy ==
  /\ pc = "accuracy"
  /\ IF HasParam("test_labels")
       THEN /\ testLabels' = cli.test_labels
            /\ IF testSet.n_cols # Len(cli.test_labels)
                 THEN /\ Fatal
                      /\ UNCHANGED <<bingoLabels, labelSize, totalBingo, report>>
                 ELSE LET c == CountLoop(1, predictions, cli.test_labels,
                                 [bingo |-> ZeroVector(numClasses),
                                  size  |-> ZeroVector(numClasses)])
                          finish ==
                            /\ bingoLabels' = c.bingo
                            /\ labelSize' = c.size
                            /\ totalBingo' = SumFrom(c.bingo, 0)
                            /\ report' =
                                 [perClass |-> [i \in DOMAIN c.bingo |->
                                                  Divide(c.bingo[i], c.size[i])],
                                  total |-> <<Divide(SumFrom(c.bingo, 0),
                                                     Len(predictions))>>]
                            /\ pc' = "savePredictions"
                          crash ==
                            /\ pc' = "crash"
                            /\ bingoLabels' = ZeroVector(numClasses)
                            /\ labelSize' = ZeroVector(numClasses)
                            /\ UNCHANGED <<totalBingo, report>>
                      IN IF IndexOutOfRange(predictions, cli.test_labels,
                                            numClasses)
                           THEN finish \/ crash
                           ELSE finish
       ELSE /\ pc' = "savePredictions"
            /\ UNCHANGED <<testLabels, bingoLabels, labelSize, totalBingo,
                           report>>
  /\ UNCHANGED <<cli, hasOpenMP, trainingSet, labels, model, numClasses,
                 testSet, predictions, out, trainCalls, classifyCalls>>

\* Lines 378-385: the predictions are saved, if asked for.
SavePredictions ==
  /\ pc = "savePredictions"
  /\ out' = IF HasParam("predictions")
              THEN [out EXCEPT !.predictions = <<"set", predictions>>]
              ELSE out
  /\ pc' = "saveModel"
  /\ UNCHANGED <<cli, hasOpenMP, trainingSet, labels, model, numClasses,
                 testSet, predictions, testLabels, bingoLabels, labelSize,
                 totalBingo, report, trainCalls, classifyCalls>>

\* Line 387: the model is the output model.
SaveModel ==
  /\ pc = "saveModel"
  /\ out' = [out EXCEPT !.output_model = model]
  /\ pc' = "done"
  /\ UNCHANGED <<cli, hasOpenMP, trainingSet, labels, model, numClasses,
                 testSet, predictions, testLabels, bingoLabels, labelSize,
                 totalBingo, report, trainCalls, classifyCalls>>

Next ==
  \/ Validate
  \/ LoadTraining
  \/ LoadModel
  \/ GetLabels
  \/ CountClasses
  \/ Train
  \/ CheckTest
  \/ Classify
  \/ Accuracy
  \/ SavePredictions
  \/ SaveModel

Spec == Init /\ [][Next]_vars

----------------------------------------------------------------------------
\* Properties

BeforeModel == {"start", "loadTraining", "loadModel"}
BeforeTrain == BeforeModel \cup {"getLabels", "numClasses", "train"}
AfterCount == {"train", "test", "classify", "accuracy", "savePredictions",
               "saveModel", "done", "crash"}
AfterTrain == AfterCount \ {"train"}
AfterAccuracy == {"savePredictions", "saveModel", "done"}

\* the number of distinct values of a sequence: its first occurrences
Distinct(s) ==
  Cardinality({i \in 1 .. Len(s) : \A j \in 1 .. (i - 1) : s[j] # s[i]})

\* C1: once numClasses is computed, it is the number of distinct labels when
\* number_of_classes is 0 (3 for the labels 0,0,1,2; 0 for no labels), and
\* number_of_classes itself, whatever the labels, when that is greater than 0.
C1_NumberOfClasses ==
  pc \in AfterCount =>
    /\ cli.number_of_classes = 0 => numClasses = Distinct(labels)
    /\ cli.number_of_classes = 0 /\ labels = <<0, 0, 1, 2>> => numClasses = 3
    /\ cli.number_of_classes = 0 /\ labels = <<>> => numClasses = 0
    /\ cli.number_of_classes > 0 => numClasses = cli.number_of_classes

C1_Witness ==
  /\ pc = "train"
  /\ cli.number_of_classes = 0
  /\ labels = <<0, 0, 1, 2>>
  /\ numClasses = 3

\* an accuracy is a defined value in [0,1]
InUnitInterval(a) == a.kind = "number" /\ 0 <= a.num /\ a.num <= a.den

AccuracyReported ==
  pc \in AfterAccuracy /\ HasParam("test") /\ HasParam("test_labels")

\* C2: in the accuracy report each class has at most as many correct
\* predictions as test points, the class sizes sum to the number of
\* predictions, totalBingo is the number of positions where prediction and
\* test label agree, and every accuracy reported is a defined value in [0,1].
C2_AccuracyReport ==
  AccuracyReported =>
    /\ \A i \in DOMAIN bingoLabels : bingoLabels[i] <= labelSize[i]
    /\ SumFrom(labelSize, 0) = Len(predictions)
    /\ totalBingo =
         Cardinality({i \in 1 .. Len(predictions) :
                        predictions[i] = testLabels[i]})
    /\ \A i \in DOMAIN report.perClass : InUnitInterval(report.perClass[i])
    /\ InUnitInterval(report.total[1])

\* C3: when the accuracy loop is reached, every test label it indexes the
\* counters with is smaller than numClasses, their length.
C3_LabelsIndexCounters ==
  (/\ pc = "accuracy"
   /\ HasParam("test_labels")
   /\ testSet.n_cols = Len(cli.test_labels))
  => \A i \in 1 .. Len(predictions) : cli.test_labels[i] < numClasses

InvalidParams ==
  \/ cli.max_iterations < 0
  \/ cli.tolerance < 0
  \/ cli.lambda < 0
  \/ cli.number_of_classes < 0
  \/ cli.delta < 0
  \/ cli.step_size < 0
  \/ cli.optimizer # "lbfgs" /\ cli.optimizer # "psgd"
  \/ ~HasParam("training") /\ ~HasParam("input_model")

NothingDone ==
  /\ model = NullModel
  /\ trainingSet = EmptyMat
  /\ trainCalls = <<>>
  /\ classifyCalls = 0
  /\ out = NoOutput

\* C4: with an out-of-range parameter the run is fatal at once: no model is
\* created or trained, no output is set, and the fatal state has no successor.
C4_InvalidParamsFatal ==
  /\ InvalidParams => pc \in {"start", "fatal"} /\ NothingDone
  /\ pc = "fatal" => ~ENABLED Next

C4_Witness == pc = "fatal" /\ cli.delta < 0 /\ HasParam("training")

\* C5: every call of Train has one label per column of its training matrix,
\* and a labels parameter of another length is fatal before training.
C5_LabelsMatchColumns ==
  /\ \A k \in DOMAIN trainCalls :
       Len(trainCalls[k].labels) = trainCalls[k].data.n_cols
  /\ (/\ HasParam("training")
      /\ HasParam("labels")
      /\ Len(cli.labels) # cli.training.n_cols
      /\ pc \notin BeforeModel \cup {"getLabels"})
     => pc = "fatal" /\ trainCalls = <<>>

C5_Witness ==
  /\ Len(trainCalls) = 1
  /\ HasParam("labels")
  /\ trainCalls[1].data.n_cols = 2
  /\ trainCalls[1].data.n_rows = 1

Classified ==
  classifyCalls > 0 \/ out.predictions # <<"unset">> \/ out.score # <<"unset">>

\* C6: Classify is called and predictions and score are set only if the test
\* matrix has one row fewer than the parameter matrix; otherwise the run is
\* fatal with neither set.  No test matrix passes against a parameter matrix
\* of 0 rows.
C6_TestDimension ==
  /\ Classified => HasParam("test") /\ cli.test.n_rows + 1 = model.paramRows
  /\ (/\ HasParam("test")
      /\ cli.test.n_rows + 1 # model.paramRows
      /\ pc \notin BeforeTrain \cup {"test"})
     => pc = "fatal" /\ ~Classified

C6_Witness ==
  /\ pc = "done"
  /\ classifyCalls = 2
  /\ out.score = <<"set", 1>>
  /\ out.predictions[1] = "set"
  /\ model.id = "input"

\* C7: a test set with as many rows as the matrix Train was called with passes
\* the dimensionality check: a fatal end comes only after Classify.
C7_TrainingDimensionPasses ==
  (/\ trainCalls # <<>>
   /\ HasParam("test")
   /\ cli.test.n_rows = trainCalls[1].data.n_rows
   /\ pc = "fatal")
  => classifyCalls > 0

\* C8: Train is called once if training is given and never if not; with
\* L-BFGS iff optimizer is lbfgs, with ParallelSGD iff it is psgd and the
\* build has OpenMP; psgd without OpenMP is fatal without training; and the
\* model has the command-line lambda, delta and intercept flag and the class
\* count numClasses when Train is called.
C8_TrainOnce ==
  /\ Len(trainCalls) <= 1
  /\ pc \in AfterTrain =>
       Len(trainCalls) = (IF HasParam("training") THEN 1 ELSE 0)
  /\ \A k \in DOMAIN trainCalls :
       LET call == trainCalls[k] IN
       /\ HasParam("training")
       /\ call.optimizer = "L_BFGS" <=> cli.optimizer = "lbfgs"
       /\ call.optimizer = "ParallelSGD" <=> (cli.optimizer = "psgd" /\ hasOpenMP)
       /\ call.model.lambda = cli.lambda
       /\ call.model.delta = cli.delta
       /\ call.model.fitIntercept = ("no_intercept" \notin cli.passed)
       /\ call.model.numClasses = call.numClasses
       /\ call.numClasses = (IF cli.number_of_classes = 0
                               THEN Distinct(call.labels)
                               ELSE cli.number_of_classes)
  /\ (/\ HasParam("training")
      /\ cli.optimizer = "psgd"
      /\ ~hasOpenMP
      /\ pc \notin BeforeTrain)
     => pc = "fatal" /\ trainCalls = <<>>

C8_Witness ==
  /\ Len(trainCalls) = 1
  /\ trainCalls[1].optimizer = "ParallelSGD"
  /\ HasParam("no_intercept")
  /\ HasParam("input_model")
  /\ pc = "done"

\* C9: without labels, a training matrix of fewer than 2 rows is fatal before
\* training; otherwise the labels are the last row (each entry as a size_t:
\* the whole part of the double) and Train gets the matrix without exactly
\* that row.  With labels, Train gets the matrix as it was given.
C9_LabelsFromLastRow ==
  /\ (/\ HasParam("training")
      /\ ~HasParam("labels")
      /\ cli.training.n_rows < 2
      /\ pc \notin BeforeModel \cup {"getLabels"})
     => pc = "fatal" /\ trainCalls = <<>>
  /\ \A k \in DOMAIN trainCalls :
       LET call == trainCalls[k]
           given == cli.training
       IN IF HasParam("labels")
            THEN call.data = given /\ call.labels = cli.labels
            ELSE /\ given.n_rows >= 2
                 /\ call.data.n_rows = given.n_rows - 1
                 /\ call.data.n_cols = given.n_cols
                 /\ \A i \in 1 .. (given.n_rows - 1) :
                      call.data.rows[i] = given.rows[i]
                 /\ Len(call.labels) = given.n_cols
                 /\ \A j \in 1 .. given.n_cols :
                      LET x == given.rows[given.n_rows][j] IN
                      /\ ToDouble(call.labels[j]) <= x
                      /\ x < ToDouble(call.labels[j] + 1)

C9_Witness ==
  /\ Len(trainCalls) = 1
  /\ ~HasParam("labels")
  /\ cli.training.n_rows = 3
  /\ cli.training.rows[1] # cli.training.rows[2]
  /\ trainCalls[1].labels = <<1, 0>>

\* C10: with input_model and without training the loaded model is never
\* changed; and a run that ends, but not in Log::Fatal, has set output_model,
\* in its last step, to the model loaded or trained.
C10_ModelKept ==
  /\ (HasParam("input_model") /\ ~HasParam("training"))
     => model \in {NullModel, cli.input_model}
  /\ pc # "done" => out.output_model = NullModel
  /\ (~ENABLED Next /\ pc # "fatal") =>
       /\ out.output_model = model
       /\ model.id = (IF HasParam("input_model") THEN "input" ELSE "new")

====
